---- MODULE Spec2Model ----
(***************************************************************************)
(* lanMsg: the packet codec (src/src/protocol.rs) and the presence         *)
(* service (src/src/net.rs): its receive loop, its user directory behind a *)
(* reader/writer lock, and the sends and queries other tasks call on it.   *)
(*                                                                         *)
(* Text is a sequence of Unicode code points, a datagram a sequence of     *)
(* bytes (0..255).  A u32 is the pair <<hi, lo>> of its two 16-bit halves, *)
(* so that the whole 32-bit range, and overflow past it, is represented.   *)
(***************************************************************************)
EXTENDS Integers, Sequences, FiniteSets, Bags, TLC

VARIABLES
    config,              \* config.encoding.protocol, "gbk" or "utf-8"
    users,               \* IpMsgServer.users: key (text) -> address
    pc,                  \* position of the listen task
    consecutive_errors,  \* listen's local counter
    buf,                 \* the datagram just received, buf[..len]
    addr,                \* its sender address
    packet,              \* the packet decoded from buf
    result,              \* what listen returned: "none" while it runs, then "Err"
    arrived,             \* history: <<datagram, address>> of every successful receive
    handled,             \* history: <<packet, address>> of every callback invocation
    errRun,              \* history: receive errors since the last successful receive
    afterFour,           \* history: the last successful receive ended a run of four errors
    cpc,                 \* position of the codec exercise
    pkt,                 \* the packet given to encode_with_config
    wire,                \* bytes on the wire
    dec,                 \* what decode_with_config returned for wire
    broadcast_ip,        \* config.network.broadcast_ip
    writer,              \* the write guard of IpMsgServer.users is held
    readers,             \* the tasks that hold a read guard of IpMsgServer.users
    op,                  \* per calling task: the IpMsgServer method it is in, or "idle"
    arg,                 \* per calling task: the arguments of its last call
    ret,                 \* per calling task: what its last call returned
    sent,                \* history: every datagram handed to the socket
    mpc,                 \* position of main, "off" where main is not run
    cli,                 \* cli.command with its arguments
    mret,                \* what main returned: "none" while it runs, then "Ok" or "Err"
    did                  \* history: the steps main has completed, in order

vars == <<config, users, pc, consecutive_errors, buf, addr, packet, result,
          arrived, handled, errRun, afterFour, cpc, pkt, wire, dec,
          broadcast_ip, writer, readers, op, arg, ret, sent,
          mpc, cli, mret, did>>

loopVars  == <<users, pc, consecutive_errors, buf, addr, packet, result,
               arrived, handled, errRun, afterFour>>
codecVars == <<cpc, pkt, wire, dec>>
callVars  == <<broadcast_ip, writer, readers, op, arg, ret, sent>>
mainVars  == <<mpc, cli, mret, did>>

-----------------------------------------------------------------------------
(* Characters and bytes the code names.                                    *)

NUL == 0
SPACE == 32
PLUS == 43
COLON == 58
AT == 64
REPLACEMENT == 65533

Min(S) == CHOOSE x \in S : \A y \in S : x <= y
Max(S) == CHOOSE x \in S : \A y \in S : x >= y

\* char::is_whitespace (White_Space), used by str::trim
IsWhitespace(c) ==
    \/ c \in 9..13
    \/ c \in {32, 133, 160, 5760, 8232, 8233, 8239, 8287, 12288}
    \/ c \in 8192..8202

\* char::is_control (general category Cc)
IsControl(c) == c \in 0..31 \/ c \in 127..159

\* u8::is_ascii_graphic
IsAsciiGraphic(b) == b \in 33..126

\* str::trim
Trim(s) ==
    LET keep == {i \in 1..Len(s) : ~IsWhitespace(s[i])}
    IN  IF keep = {} THEN <<>> ELSE SubSeq(s, Min(keep), Max(keep))

\* the index of the first occurrence of c in s, 0 when there is none
IndexOf(s, c) ==
    LET at == {i \in 1..Len(s) : s[i] = c}
    IN  IF at = {} THEN 0 ELSE Min(at)

\* str::split(c), collected: always at least one part
RECURSIVE Split(_, _)
Split(s, c) ==
    LET i == IndexOf(s, c)
    IN  IF i = 0 THEN <<s>>
        ELSE <<SubSeq(s, 1, i - 1)>> \o Split(SubSeq(s, i + 1, Len(s)), c)

\* iterator next().unwrap_or_default() on the n-th piece of a split
Piece(parts, n) == IF n <= Len(parts) THEN parts[n] ELSE <<>>

RECURSIVE Concat(_)
Concat(ss) == IF ss = <<>> THEN <<>> ELSE Head(ss) \o Concat(Tail(ss))

-----------------------------------------------------------------------------
(* u32 as <<hi, lo>>, both halves in 0..65535.                             *)

HALF == 65536

\* v * 10 + d, checked: ok is FALSE when the result does not fit 32 bits
MulAdd10(v, d) ==
    LET lo == v[2] * 10 + d
        hi == v[1] * 10 + (lo \div HALF)
    IN  IF hi >= HALF THEN [ok |-> FALSE, val |-> <<0, 0>>]
        ELSE [ok |-> TRUE, val |-> <<hi, lo % HALF>>]

\* <<v div 10, v mod 10>>
DivMod10(v) ==
    LET t == (v[1] % 10) * HALF + v[2]
    IN  <<(<<v[1] \div 10, t \div 10>>), t % 10>>

\* Display for u32: decimal digits, no sign, no leading zero
RECURSIVE FmtU32(_)
FmtU32(v) ==
    LET qr == DivMod10(v)
    IN  IF qr[1] = <<0, 0>> THEN <<48 + qr[2]>>
        ELSE FmtU32(qr[1]) \o <<48 + qr[2]>>

RECURSIVE ParseDigits(_, _)
ParseDigits(s, acc) ==
    IF s = <<>> THEN [ok |-> TRUE, val |-> acc]
    ELSE IF s[1] \notin 48..57 THEN [ok |-> FALSE, val |-> <<0, 0>>]
    ELSE LET nxt == MulAdd10(acc, s[1] - 48)
         IN  IF ~nxt.ok THEN nxt ELSE ParseDigits(Tail(s), nxt.val)

\* str::parse::<u32>: an optional '+', then one or more decimal digits whose
\* value fits 32 bits; ok is FALSE for everything else
ParseU32(s) ==
    LET digits == IF Len(s) > 1 /\ s[1] = PLUS THEN Tail(s) ELSE s
    IN  IF digits = <<>> THEN [ok |-> FALSE, val |-> <<0, 0>>]
        ELSE ParseDigits(digits, <<0, 0>>)

\* decimal digits of a natural number (numeric character references)
RECURSIVE FmtNat(_)
FmtNat(n) == IF n < 10 THEN <<48 + n>> ELSE FmtNat(n \div 10) \o <<48 + (n % 10)>>

-----------------------------------------------------------------------------
(* The two text encodings (encoding_rs GBK and UTF_8).  A decoder yields   *)
(* the decoded code points with MALFORMED in the place of every malformed  *)
(* sequence: had_errors is the presence of one, and the decoded text has   *)
(* U+FFFD there.  Byte-order-mark sniffing is left out: no datagram of the *)
(* model starts with a byte-order mark.                                    *)

MALFORMED == -1

HadErrors(marked) == \E i \in 1..Len(marked) : marked[i] = MALFORMED

Replaced(marked) ==
    [i \in 1..Len(marked) |-> IF marked[i] = MALFORMED THEN REPLACEMENT ELSE marked[i]]

\* UTF-8: the number of continuation bytes a lead byte asks for, -1 for a
\* byte that cannot start a sequence
Utf8Need(b) ==
    CASE b <= 127 -> 0
      [] b \in 194..223 -> 1
      [] b \in 224..239 -> 2
      [] b \in 240..244 -> 3
      [] OTHER -> -1

\* the range of the first continuation byte (excludes overlong forms,
\* surrogates and code points past U+10FFFF)
Utf8Lo(b) == IF b = 224 THEN 160 ELSE IF b = 240 THEN 144 ELSE 128
Utf8Hi(b) == IF b = 237 THEN 159 ELSE IF b = 244 THEN 143 ELSE 191

RECURSIVE Utf8DecodeFrom(_, _)
Utf8DecodeFrom(d, i) ==
    IF i > Len(d) THEN <<>>
    ELSE
      LET b == d[i]
          n == Utf8Need(b)
          In(j, lo, hi) == j <= Len(d) /\ d[j] \in lo..hi
          C(j) == d[j] - 128
      IN  CASE n = 0 -> <<b>> \o Utf8DecodeFrom(d, i + 1)
            [] n = -1 -> <<MALFORMED>> \o Utf8DecodeFrom(d, i + 1)
            [] n = 1 ->
                 IF ~In(i + 1, 128, 191)
                 THEN <<MALFORMED>> \o Utf8DecodeFrom(d, i + 1)
                 ELSE <<(b - 192) * 64 + C(i + 1)>> \o Utf8DecodeFrom(d, i + 2)
            [] n = 2 ->
                 IF ~In(i + 1, Utf8Lo(b), Utf8Hi(b))
                 THEN <<MALFORMED>> \o Utf8DecodeFrom(d, i + 1)
                 ELSE IF ~In(i + 2, 128, 191)
                 THEN <<MALFORMED>> \o Utf8DecodeFrom(d, i + 2)
                 ELSE <<(b - 224) * 4096 + C(i + 1) * 64 + C(i + 2)>>
                          \o Utf8DecodeFrom(d, i + 3)
            [] n = 3 ->
                 IF ~In(i + 1, Utf8Lo(b), Utf8Hi(b))
                 THEN <<MALFORMED>> \o Utf8DecodeFrom(d, i + 1)
                 ELSE IF ~In(i + 2, 128, 191)
                 THEN <<MALFORMED>> \o Utf8DecodeFrom(d, i + 2)
                 ELSE IF ~In(i + 3, 128, 191)
                 THEN <<MALFORMED>> \o Utf8DecodeFrom(d, i + 3)
                 ELSE <<(b - 240) * 262144 + C(i + 1) * 4096 + C(i + 2) * 64 + C(i + 3)>>
                          \o Utf8DecodeFrom(d, i + 4)

Utf8EncodeChar(c) ==
    CASE c < 128 -> <<c>>
      [] c \in 128..2047 -> <<192 + (c \div 64), 128 + (c % 64)>>
      [] c \in 2048..65535 ->
           <<224 + (c \div 4096), 128 + ((c \div 64) % 64), 128 + (c % 64)>>
      [] c \in 65536..1114111 ->
           <<240 + (c \div 262144), 128 + ((c \div 4096) % 64),
             128 + ((c \div 64) % 64), 128 + (c % 64)>>

\* GBK: the two-byte index, for the lead and trail bytes of the model's
\* datagrams (any other pair has no arm, and evaluating it is an error)
GbkIndex(lead, trail) ==
    CASE lead = 213 /\ trail = 197 -> 24352     \* D5 C5, U+5F20
      [] lead = 213 /\ trail = 213 -> 29031     \* D5 D5, U+7167
      [] lead = 213 /\ trail = 97  -> 35493     \* D5 61, U+8AA5
      [] lead = 197 /\ trail = 213 -> 32810     \* C5 D5, U+802A
      [] lead = 197 /\ trail = 197 -> 25490     \* C5 C5, U+6392
      [] lead = 197 /\ trail = 97  -> 33279     \* C5 61, U+81FF

\* the code point of a four-byte pointer, -1 for none (the ranges below
\* pointer 39420 are not tabulated: no lead byte of the model reaches them)
GbkRanges(pointer) ==
    CASE pointer > 1237575 -> -1
      [] pointer \in 39420..188999 -> -1
      [] pointer \in 189000..1237575 -> 65536 + (pointer - 189000)

RECURSIVE GbkDecodeFrom(_, _)
GbkDecodeFrom(d, i) ==
    IF i > Len(d) THEN <<>>
    ELSE
      LET b == d[i]
          n == Len(d)
          \* a byte that cannot continue the sequence is read again when it is ASCII
          Resume(j) == IF d[j] <= 127 THEN j ELSE j + 1
      IN  IF b <= 127 THEN <<b>> \o GbkDecodeFrom(d, i + 1)
          ELSE IF b = 128 THEN <<8364>> \o GbkDecodeFrom(d, i + 1)
          ELSE IF b = 255 THEN <<MALFORMED>> \o GbkDecodeFrom(d, i + 1)
          ELSE IF i + 1 > n THEN <<MALFORMED>>
          ELSE IF d[i + 1] \in 48..57 THEN
                 IF i + 2 > n THEN <<MALFORMED>>
                 ELSE IF d[i + 2] \notin 129..254
                 THEN <<MALFORMED>> \o GbkDecodeFrom(d, i + 1)
                 ELSE IF i + 3 > n THEN <<MALFORMED>>
                 ELSE IF d[i + 3] \notin 48..57
                 THEN <<MALFORMED>> \o GbkDecodeFrom(d, i + 1)
                 ELSE LET cp == GbkRanges((b - 129) * 12600 + (d[i + 1] - 48) * 1260
                                          + (d[i + 2] - 129) * 10 + (d[i + 3] - 48))
                      IN  <<IF cp = -1 THEN MALFORMED ELSE cp>>
                              \o GbkDecodeFrom(d, i + 4)
          ELSE IF d[i + 1] \in 64..126 \/ d[i + 1] \in 128..254
          THEN <<GbkIndex(b, d[i + 1])>> \o GbkDecodeFrom(d, i + 2)
          ELSE <<MALFORMED>> \o GbkDecodeFrom(d, Resume(i + 1))

\* the GBK encoder with encoding_rs's replacement of what it cannot map:
\* a numeric character reference
GbkEncodeChar(c) ==
    CASE c < 128 -> <<c>>
      [] c = 24352 -> <<213, 197>>
      [] c = 29031 -> <<213, 213>>
      [] c = 35493 -> <<213, 97>>
      [] c = 32810 -> <<197, 213>>
      [] c = 25490 -> <<197, 197>>
      [] c = 33279 -> <<197, 97>>
      [] c = REPLACEMENT \/ c >= 65536 -> <<38, 35>> \o FmtNat(c) \o <<59>>

GBK == "gbk"
UTF_8 == "utf-8"

\* match config.encoding.protocol.as_str() { "gbk" => GBK, _ => UTF_8 }
Encoding(cfg) == IF cfg = "gbk" THEN GBK ELSE UTF_8

\* Encoding::decode, as the marked code points
DecodeMarked(enc, data) ==
    IF enc = GBK THEN GbkDecodeFrom(data, 1) ELSE Utf8DecodeFrom(data, 1)

\* Encoding::encode(..).0
EncodeText(enc, s) ==
    Concat([i \in 1..Len(s) |->
               IF enc = GBK THEN GbkEncodeChar(s[i]) ELSE Utf8EncodeChar(s[i])])

-----------------------------------------------------------------------------
(* IpMsgPacket and its codec.                                              *)

Packet(ver, no, user, host, cmd, name, group, msg) ==
    [version |-> ver, packet_no |-> no, sender_user |-> user, sender_host |-> host,
     command |-> cmd, sender_name |-> name, group_name |-> group,
     additional_msg |-> msg]

\* the placeholder carried by a failed decode, and by packet before any decode
NoPacket == Packet(<<>>, <<0, 0>>, <<>>, <<>>, <<0, 0>>, <<>>, <<>>, <<>>)

Ok(p) == [ok |-> TRUE, packet |-> p]
Err == [ok |-> FALSE, packet |-> NoPacket]

AAMSG == <<97, 97, 77, 115, 103>>   \* "aaMsg"

\* format!("{}:{}:{}:{}:{}:{}", ..)
Format6(a, b, c, d, e, f) ==
    a \o <<COLON>> \o b \o <<COLON>> \o c \o <<COLON>> \o d \o <<COLON>> \o e
      \o <<COLON>> \o f

\* IpMsgPacket::encode: the text, sent as its UTF-8 bytes
encode(p) ==
    Format6(p.version, FmtU32(p.packet_no), p.sender_name, p.sender_host,
            FmtU32(p.command), p.additional_msg)

\* a mutation of PacketStr: the body follows the group as a third piece
PacketStrWithBody(p) ==
    LET additional == IF p.group_name = <<>> THEN p.additional_msg
                      ELSE p.sender_name \o <<NUL>> \o p.group_name
                               \o <<NUL>> \o p.additional_msg
    IN  Format6(p.version, FmtU32(p.packet_no), AAMSG, p.sender_host,
                FmtU32(p.command), additional)

\* a mutation of PacketStr: the sender's name in the third slot, as encode has it
PacketStrSenderName(p) ==
    LET additional == IF p.group_name = <<>> THEN p.additional_msg
                      ELSE p.sender_name \o <<NUL>> \o p.group_name
    IN  Format6(p.version, FmtU32(p.packet_no), p.sender_name, p.sender_host,
                FmtU32(p.command), additional)

\* the text encode_with_config composes
PacketStr(p) ==
    LET additional == IF p.group_name = <<>> THEN p.additional_msg
                      ELSE p.sender_name \o <<NUL>> \o p.group_name
    IN  Format6(p.version, FmtU32(p.packet_no), AAMSG, p.sender_host,
                FmtU32(p.command), additional)

encode_with_config(p, cfg) == EncodeText(Encoding(cfg), PacketStr(p))

\* a mutation of decode_fallback: a number that does not parse is an error
decode_fallback_strict(s) ==
    LET parts == Split(s, COLON)
        no == ParseU32(parts[2])
        cmd == ParseU32(parts[5])
        first == Split(parts[6], NUL)[1]
    IN  IF Len(parts) < 6 THEN Err
        ELSE IF ~no.ok \/ ~cmd.ok THEN Err
        ELSE Ok(Packet(parts[1], no.val, parts[3], parts[4], cmd.val,
                       first, first, first))

\* parse().unwrap_or(0) on the numbers; each of the three tail fields is
\* parts[5].split('\0').next()
decode_fallback(s) ==
    LET parts == Split(s, COLON)
        no == ParseU32(parts[2])
        cmd == ParseU32(parts[5])
        first == Split(parts[6], NUL)[1]
    IN  IF Len(parts) < 6 THEN Err
        ELSE Ok(Packet(parts[1], IF no.ok THEN no.val ELSE <<0, 0>>,
                       parts[3], parts[4], IF cmd.ok THEN cmd.val ELSE <<0, 0>>,
                       first, first, first))

\* a mutation of parse_packet_str: a number that does not parse is 0
parse_packet_str_lenient(s) ==
    LET parts == Split(s, COLON)
        pieces == Split(parts[6], NUL)
        no == ParseU32(parts[2])
        cmd == ParseU32(parts[5])
    IN  IF Len(parts) < 6 THEN Err
        ELSE Ok(Packet(parts[1], IF no.ok THEN no.val ELSE <<0, 0>>,
                       parts[3], parts[4], IF cmd.ok THEN cmd.val ELSE <<0, 0>>,
                       Piece(pieces, 1), Piece(pieces, 2), Piece(pieces, 3)))

parse_packet_str(s) ==
    LET parts == Split(s, COLON)
        pieces == Split(parts[6], NUL)
        no == ParseU32(parts[2])
        cmd == ParseU32(parts[5])
    IN  IF Len(parts) < 6 THEN Err
        ELSE IF ~no.ok \/ ~cmd.ok THEN Err
        ELSE Ok(Packet(parts[1], no.val, parts[3], parts[4], cmd.val,
                       Piece(pieces, 1), Piece(pieces, 2), Piece(pieces, 3)))

IsPrintableByte(b) == IsAsciiGraphic(b) \/ b = SPACE
IsVisibleChar(c) == c # NUL /\ ~IsControl(c)

\* s.chars().take_while(|&c| c != '\0' && !c.is_control())
TakeVisible(s) ==
    LET stop == {i \in 1..Len(s) : ~IsVisibleChar(s[i])}
    IN  IF stop = {} THEN s ELSE SubSeq(s, 1, Min(stop) - 1)

\* the bytes pushed before the scan breaks
TakePrintable(data) ==
    LET stop == {i \in 1..Len(data) : ~IsPrintableByte(data[i])}
    IN  IF stop = {} THEN data ELSE SubSeq(data, 1, Min(stop) - 1)

extract_string_part2(data, cfg) ==
    IF cfg = "gbk"
    THEN TakeVisible(Trim(Replaced(DecodeMarked(GBK, data))))
    ELSE Trim(TakePrintable(data))

decode_with_config(data, cfg) ==
    LET marked == DecodeMarked(Encoding(cfg), data)
    IN  IF HadErrors(marked)
        THEN decode_fallback(extract_string_part2(data, cfg))
        ELSE parse_packet_str(Trim(marked))

-----------------------------------------------------------------------------
(* The presence service: the user directory and the receive loop.          *)

BR_ENTRY == 1
BR_EXIT == 2
IPMSG_ANSENTRY == 3
IPMSG_BR_ABSENCE == 4
MSG == 32
FILE == 96

MAX_CONSECUTIVE_ERRORS == 5

EmptyMap == [k \in {} |-> "none"]

\* a mutation of Insert: the first address recorded for a key is kept
InsertIfAbsent(m, k, v) ==
    [x \in (DOMAIN m) \cup {k} |-> IF x \in DOMAIN m THEN m[x] ELSE v]

\* HashMap::insert and HashMap::remove
Insert(m, k, v) == [x \in (DOMAIN m) \cup {k} |-> IF x = k THEN v ELSE m[x]]
Remove(m, k) == [x \in (DOMAIN m) \ {k} |-> m[x]]

\* a mutation of UserKey: the sender's name alone
UserKeyName(p) == p.sender_name

\* format!("{}@{}", packet.sender_name, packet.sender_host)
UserKey(p) == p.sender_name \o <<AT>> \o p.sender_host

\* packet.command & 0xff
LowByte(v) == v[2] % 256

\* a mutation of handle_packet: the whole command is matched, flags included
handle_packet_unmasked(u, p, a) ==
    LET username == p.sender_name \o <<AT>> \o p.sender_host
    IN  CASE p.command = <<0, BR_ENTRY>> -> Insert(u, username, a)
          [] p.command = <<0, IPMSG_ANSENTRY>> -> Insert(u, username, a)
          [] p.command = <<0, BR_EXIT>> -> Remove(u, username)
          [] OTHER -> u

\* a mutation of handle_packet: an exit is honoured only from the address on record
handle_packet_exit_same_addr(u, p, a) ==
    LET username == p.sender_name \o <<AT>> \o p.sender_host
        command == p.command[2] % 256
    IN  CASE command = BR_ENTRY -> Insert(u, username, a)
          [] command = IPMSG_ANSENTRY -> Insert(u, username, a)
          [] command = BR_EXIT ->
               IF username \in DOMAIN u /\ u[username] = a
               THEN Remove(u, username) ELSE u
          [] OTHER -> u

\* a mutation of handle_packet: every packet refreshes its sender's entry
handle_packet_refresh_any(u, p, a) ==
    LET username == p.sender_name \o <<AT>> \o p.sender_host
        command == p.command[2] % 256
    IN  CASE command = BR_EXIT -> Remove(u, username)
          [] OTHER -> Insert(u, username, a)

\* a mutation of handle_packet: an absence notice removes the sender
handle_packet_absence_removes(u, p, a) ==
    LET username == UserKey(p)
        command == LowByte(p.command)
    IN  CASE command = BR_ENTRY -> Insert(u, username, a)
          [] command = IPMSG_ANSENTRY -> Insert(u, username, a)
          [] command = BR_EXIT -> Remove(u, username)
          [] command = IPMSG_BR_ABSENCE -> Remove(u, username)
          [] OTHER -> u

\* handle_packet, as the directory it leaves
handle_packet(u, p, a) ==
    LET username == UserKey(p)
        command == LowByte(p.command)
    IN  CASE command = BR_ENTRY -> Insert(u, username, a)
          [] command = IPMSG_ANSENTRY -> Insert(u, username, a)
          [] command = BR_EXIT -> Remove(u, username)
          [] OTHER -> u

\* how many datagrams the network delivers in a run
MaxDatagrams == 3

\* "1:1:u:h:<command>:<tail>", the datagrams of the model are built of
Datagram(packet_no, command, tail) ==
    Format6(<<49>>, packet_no, <<117>>, <<104>>, FmtNat(command), tail)

NameA == <<97>>
NameB == <<98>>

\* what the network may deliver: <<datagram, sender address>>
Deliveries ==
    { <<Datagram(<<49>>, BR_ENTRY, NameA), "A1">>,
      <<Datagram(<<49>>, BR_ENTRY, NameA), "A2">>,
      <<Datagram(<<49>>, BR_EXIT, NameA), "A2">>,
      <<Datagram(<<49>>, 256 + IPMSG_ANSENTRY, NameB), "A1">>,
      <<Datagram(<<49>>, 512 + BR_EXIT, NameB), "A2">>,
      <<Datagram(<<49>>, MSG, NameA), "A2">>,
      <<Datagram(<<49>>, 256 + FILE, NameB), "A2">>,
      <<Datagram(<<49>>, IPMSG_BR_ABSENCE, NameA), "A2">>,
      <<Datagram(<<49>>, 0, NameB), "A2">>,
      \* five parts only: no decode
      <<SubSeq(Datagram(<<49>>, BR_ENTRY, NameA), 1, 9), "A1">>,
      \* a name in GBK (D5 C5): malformed as UTF-8, decoded by the fallback
      <<Datagram(<<49>>, BR_ENTRY, <<213, 197>>), "A1">> }

\* the tasks that call the service: main, and one more holding a clone of it
Callers == {"main", "task2"}

NoArg == [packet |-> NoPacket, addr |-> "none", username |-> <<>>]
NoReturn == [op |-> "none", ok |-> TRUE, addr |-> "none", list |-> EmptyBag]

\* no call in progress, the lock free, nothing sent
CallersIdle ==
    /\ writer = FALSE
    /\ readers = {}
    /\ op = [c \in Callers |-> "idle"]
    /\ arg = [c \in Callers |-> NoArg]
    /\ ret = [c \in Callers |-> NoReturn]
    /\ sent = <<>>

\* main is not run
NoCommand == [kind |-> "none", recipient |-> <<>>]

MainOff ==
    /\ mpc = "off"
    /\ cli = NoCommand
    /\ mret = "none"
    /\ did = <<>>

default_broadcast_ip == "255.255.255.255"

ListenInit ==
    /\ users = EmptyMap
    /\ pc = "recv"
    /\ consecutive_errors = 0
    /\ buf = <<>>
    /\ addr = "none"
    /\ packet = NoPacket
    /\ result = "none"
    /\ arrived = <<>>
    /\ handled = <<>>
    /\ errRun = 0
    /\ afterFour = FALSE

CodecIdle ==
    /\ cpc = "idle"
    /\ pkt = NoPacket
    /\ wire = <<>>
    /\ dec = Err

Init ==
    /\ config \in {"gbk", "utf-8"}
    /\ broadcast_ip = default_broadcast_ip
    /\ ListenInit
    /\ CodecIdle
    /\ CallersIdle
    /\ MainOff

\* a mutation of RecvOk: the counter is not reset
RecvOkNoReset(d, a) ==
    /\ pc = "recv"
    /\ Len(arrived) < MaxDatagrams
    /\ buf' = d
    /\ addr' = a
    /\ pc' = "decode"
    /\ arrived' = Append(arrived, <<d, a>>)
    /\ afterFour' = (errRun = 4)
    /\ errRun' = 0
    /\ UNCHANGED <<config, mainVars, users, consecutive_errors, packet, result, handled, codecVars, callVars>>

\* recv_from returns Ok((len, addr))
RecvOk(d, a) ==
    /\ pc = "recv"
    /\ Len(arrived) < MaxDatagrams
    /\ consecutive_errors' = 0
    /\ buf' = d
    /\ addr' = a
    /\ pc' = "decode"
    /\ arrived' = Append(arrived, <<d, a>>)
    /\ afterFour' = (errRun = 4)
    /\ errRun' = 0
    /\ UNCHANGED <<config, mainVars, users, packet, result, handled, codecVars, callVars>>

\* recv_from returns Err(e)
RecvErr ==
    /\ pc = "recv"
    /\ consecutive_errors' = consecutive_errors + 1
    /\ errRun' = errRun + 1
    /\ IF consecutive_errors' >= MAX_CONSECUTIVE_ERRORS
       THEN pc' = "returned" /\ result' = "Err"
       ELSE pc' = "recv" /\ result' = result
    /\ UNCHANGED <<config, mainVars, users, buf, addr, packet, arrived, handled, afterFour, codecVars, callVars>>

\* decode_with_config returns Ok(packet)
DecodeOk ==
    /\ pc = "decode"
    /\ decode_with_config(buf, config).ok
    /\ packet' = decode_with_config(buf, config).packet
    /\ pc' = "handle"
    /\ UNCHANGED <<config, mainVars, users, consecutive_errors, buf, addr, result, arrived,
                   handled, errRun, afterFour, codecVars, callVars>>

\* a mutation of DecodeFail: a decode failure counts as a receive error
DecodeFailCounts ==
    /\ pc = "decode"
    /\ ~decode_with_config(buf, config).ok
    /\ consecutive_errors' = consecutive_errors + 1
    /\ IF consecutive_errors' >= MAX_CONSECUTIVE_ERRORS
       THEN pc' = "returned" /\ result' = "Err"
       ELSE pc' = "recv" /\ result' = result
    /\ UNCHANGED <<config, mainVars, users, buf, addr, packet, arrived, handled, errRun,
                   afterFour, codecVars, callVars>>

\* a mutation of DecodeFail: the callback runs on the packet decoded before
DecodeFailCallsBack ==
    /\ pc = "decode"
    /\ ~decode_with_config(buf, config).ok
    /\ handled' = Append(handled, <<packet, addr>>)
    /\ pc' = "recv"
    /\ UNCHANGED <<config, mainVars, users, consecutive_errors, buf, addr, packet, result,
                   arrived, errRun, afterFour, codecVars, callVars>>

\* decode_with_config returns Err(e): the datagram is logged and dropped
DecodeFail ==
    /\ pc = "decode"
    /\ ~decode_with_config(buf, config).ok
    /\ pc' = "recv"
    /\ UNCHANGED <<config, mainVars, users, consecutive_errors, buf, addr, packet, result,
                   arrived, handled, errRun, afterFour, codecVars, callVars>>

\* a mutation of LockUsers: try_write, the update skipped when a guard is out
LockUsersTry ==
    /\ pc \in {"handle", "queued"}
    /\ IF readers = {}
       THEN writer' = TRUE /\ pc' = "locked"
       ELSE pc' = "callback" /\ writer' = writer
    /\ UNCHANGED <<config, mainVars, users, consecutive_errors, buf, addr, packet, result,
                   arrived, handled, errRun, afterFour, codecVars,
                   broadcast_ip, readers, op, arg, ret, sent>>

\* handle_packet: self.users.write().await.  The guard is granted at once
\* when no guard is out; otherwise the task queues for it, and a queued
\* writer is granted the guard when the last reader has dropped its own
LockUsers ==
    /\ pc \in {"handle", "queued"}
    /\ IF readers = {}
       THEN writer' = TRUE /\ pc' = "locked"
       ELSE pc = "handle" /\ pc' = "queued" /\ writer' = writer
    /\ UNCHANGED <<config, mainVars, users, consecutive_errors, buf, addr, packet, result,
                   arrived, handled, errRun, afterFour, codecVars,
                   broadcast_ip, readers, op, arg, ret, sent>>

\* a mutation of HandlePacket: the write guard is kept while the callback runs
HandlePacketKeepsGuard ==
    /\ pc = "locked"
    /\ users' = handle_packet(users, packet, addr)
    /\ pc' = "callback"
    /\ UNCHANGED <<config, mainVars, consecutive_errors, buf, addr, packet, result, arrived,
                   handled, errRun, afterFour, codecVars, callVars>>

\* handle_packet under the write guard, which is dropped when it returns
HandlePacket ==
    /\ pc = "locked"
    /\ users' = handle_packet(users, packet, addr)
    /\ writer' = FALSE
    /\ pc' = "callback"
    /\ UNCHANGED <<config, mainVars, consecutive_errors, buf, addr, packet, result, arrived,
                   handled, errRun, afterFour, codecVars,
                   broadcast_ip, readers, op, arg, ret, sent>>

\* callback(packet, addr)
Callback ==
    /\ pc = "callback"
    /\ handled' = Append(handled, <<packet, addr>>)
    /\ pc' = "recv"
    /\ UNCHANGED <<config, mainVars, users, consecutive_errors, buf, addr, packet, result,
                   arrived, errRun, afterFour, codecVars, callVars>>

Next ==
    \/ \E dl \in Deliveries : RecvOk(dl[1], dl[2])
    \/ RecvErr
    \/ DecodeOk
    \/ DecodeFail
    \/ LockUsers
    \/ HandlePacket
    \/ Callback

Spec == Init /\ [][Next]_vars

-----------------------------------------------------------------------------
(* The codec on its own: a packet is encoded and the bytes decoded again,  *)
(* and raw datagrams are decoded.                                          *)

ListenOff ==
    /\ users = EmptyMap
    /\ pc = "off"
    /\ consecutive_errors = 0
    /\ buf = <<>>
    /\ addr = "none"
    /\ packet = NoPacket
    /\ result = "none"
    /\ arrived = <<>>
    /\ handled = <<>>
    /\ errRun = 0
    /\ afterFour = FALSE

\* field values of the packets given to encode_with_config
TextLanMsg == <<108, 97, 110, 77, 115, 103, 32, 48, 46, 49>>   \* "lanMsg 0.1"
TextUser == <<100, 101, 102, 97, 117, 108, 116, 95, 117, 115, 101, 114>>  \* "default_user"
TextPC1 == <<80, 67, 45, 49>>                 \* "PC-1"
TextAlice == <<65, 108, 105, 99, 101>>        \* "Alice"
TextHello == <<72, 101, 108, 108, 111>>       \* "Hello"
TextZhang == <<24352>>                        \* U+5F20, D5 C5 in GBK
TextEmoji == <<128512>>                       \* U+1F600, not in GBK

PacketNos == {<<0, 0>>, <<0, 100>>, <<65535, 65535>>}
Hosts == {TextPC1, <<>>, TextZhang}
Commands == {<<0, MSG>>, <<0, BR_ENTRY>>, <<0, 256 + BR_ENTRY>>, <<65535, 65535>>}
Names == {TextAlice, <<>>, TextEmoji}
Groups == {<<>>, <<103>>, TextZhang}
Msgs == {<<>>, TextHello, TextZhang, TextEmoji, <<97, COLON, 98>>, <<SPACE, 120>>}

Packets ==
    {Packet(TextLanMsg, no, TextUser, host, cmd, name, group, msg) :
        no \in PacketNos, host \in Hosts, cmd \in Commands,
        name \in Names, group \in Groups, msg \in Msgs}

CodecInit ==
    /\ config \in {"gbk", "utf-8"}
    /\ broadcast_ip = default_broadcast_ip
    /\ ListenOff
    /\ CallersIdle
    /\ MainOff
    /\ cpc = "start"
    /\ pkt \in Packets
    /\ wire = <<>>
    /\ dec = Err

\* bytes = pkt.encode_with_config(&config)
EncodeStep ==
    /\ cpc = "start"
    /\ wire' = encode_with_config(pkt, config)
    /\ cpc' = "wire"
    /\ UNCHANGED <<config, mainVars, loopVars, pkt, dec, callVars>>

\* IpMsgPacket::decode_with_config(&bytes, &config)
DecodeStep ==
    /\ cpc = "wire"
    /\ dec' = decode_with_config(wire, config)
    /\ cpc' = "decoded"
    /\ UNCHANGED <<config, mainVars, loopVars, pkt, wire, callVars>>

CodecNext == EncodeStep \/ DecodeStep

SpecCodec == CodecInit /\ [][CodecNext]_vars

\* raw datagrams: six colon-separated segments, up to MaxExtraSegments more,
\* then trailing bytes
MaxExtraSegments == 1

RECURSIVE ExtraSegments(_)
ExtraSegments(n) == IF n = 0 THEN <<>> ELSE <<COLON, 122>> \o ExtraSegments(n - 1)

Seg1s == {<<49>>, <<SPACE, 49>>, <<1>>, <<9>>}
Seg2s == {<<55>>, <<120>>, <<PLUS, 55>>, <<>>,
          <<52, 50, 57, 52, 57, 54, 55, 50, 57, 54>>}     \* "4294967296"
Seg4s == {<<104>>, <<104, NUL>>}
Seg5s == {<<49>>, <<45, 49>>, <<49, SPACE>>,
          <<52, 50, 57, 52, 57, 54, 55, 50, 57, 53>>}     \* "4294967295"
Tails == {<<110>>, <<110, NUL, 103, NUL, 109>>, <<>>}
Trailers == {<<>>, <<255>>, <<213>>, <<213, 197>>, <<213, 49>>, <<255, COLON, 49>>}

RawDatagrams ==
    {Format6(s1, s2, <<117>>, s4, s5, t) \o ExtraSegments(n) \o g :
        s1 \in Seg1s, s2 \in Seg2s, s4 \in Seg4s, s5 \in Seg5s, t \in Tails,
        n \in 0..MaxExtraSegments, g \in Trailers}

\* five segments only
ShortDatagrams ==
    {<<49, COLON>> \o s2 \o <<COLON, 117, COLON, 104, COLON, 49>> \o g :
        s2 \in Seg2s, g \in Trailers}

RawInit ==
    /\ config \in {"gbk", "utf-8"}
    /\ broadcast_ip = default_broadcast_ip
    /\ ListenOff
    /\ CallersIdle
    /\ MainOff
    /\ cpc = "wire"
    /\ pkt = NoPacket
    /\ wire \in RawDatagrams \cup ShortDatagrams
    /\ dec = Err

RawNext == DecodeStep

SpecDecode == RawInit /\ [][RawNext]_vars

-----------------------------------------------------------------------------
(* The operations other tasks call on the service while listen runs.       *)

IPMSG_PORT == 2425

\* the socket addresses behind the address names
SocketAddr(a) ==
    CASE a = "A1" -> [ip |-> "192.168.1.5", port |-> IPMSG_PORT]
      [] a = "A2" -> [ip |-> "192.168.1.6", port |-> 50000]

\* format!("255.255.255.255:{}", IPMSG_PORT)
BroadcastDest == [ip |-> "255.255.255.255", port |-> IPMSG_PORT]

\* packet.encode().as_bytes()
EncodedBytes(p) == EncodeText(UTF_8, encode(p))

\* the sends that have been called and have not returned
InFlight == {c \in Callers : op[c] \in {"broadcast", "send_to"}}

\* the sends of tasks other than main are bounded; main's are bounded by its
\* program
MaxSends == 1

\* server.broadcast(&packet) is called
BroadcastCall(c, p) ==
    /\ op[c] = "idle"
    /\ mpc # "off" \/ Len(sent) + Cardinality(InFlight) < MaxSends
    /\ op' = [op EXCEPT ![c] = "broadcast"]
    /\ arg' = [arg EXCEPT ![c] = [NoArg EXCEPT !.packet = p]]
    /\ ret' = [ret EXCEPT ![c] = NoReturn]
    /\ UNCHANGED <<config, mainVars, loopVars, codecVars, broadcast_ip, writer, readers, sent>>

\* server.send_to(&packet, &addr) is called
SendToCall(c, p, a) ==
    /\ op[c] = "idle"
    /\ mpc # "off" \/ Len(sent) + Cardinality(InFlight) < MaxSends
    /\ op' = [op EXCEPT ![c] = "send_to"]
    /\ arg' = [arg EXCEPT ![c] = [NoArg EXCEPT !.packet = p, !.addr = a]]
    /\ ret' = [ret EXCEPT ![c] = NoReturn]
    /\ UNCHANGED <<config, mainVars, loopVars, codecVars, broadcast_ip, writer, readers, sent>>

\* broadcast: socket.send_to(..).await? then Ok(()); ok is what the socket
\* answered
Broadcast(c, ok) ==
    /\ op[c] = "broadcast"
    /\ sent' = IF ok
               THEN Append(sent, [call |-> "broadcast", packet |-> arg[c].packet,
                                  addr |-> "none", dest |-> BroadcastDest,
                                  payload |-> EncodedBytes(arg[c].packet)])
               ELSE sent
    /\ ret' = [ret EXCEPT ![c] = [NoReturn EXCEPT !.op = "broadcast", !.ok = ok]]
    /\ op' = [op EXCEPT ![c] = "idle"]
    /\ UNCHANGED <<config, mainVars, loopVars, codecVars, broadcast_ip, writer, readers, arg>>

\* send_to: socket.send_to(.., addr).await? then Ok(())
SendTo(c, ok) ==
    /\ op[c] = "send_to"
    /\ sent' = IF ok
               THEN Append(sent, [call |-> "send_to", packet |-> arg[c].packet,
                                  addr |-> arg[c].addr,
                                  dest |-> SocketAddr(arg[c].addr),
                                  payload |-> EncodedBytes(arg[c].packet)])
               ELSE sent
    /\ ret' = [ret EXCEPT ![c] = [NoReturn EXCEPT !.op = "send_to", !.ok = ok]]
    /\ op' = [op EXCEPT ![c] = "idle"]
    /\ UNCHANGED <<config, mainVars, loopVars, codecVars, broadcast_ip, writer, readers, arg>>

TextUnknown == <<117, 110, 107, 110, 111, 119, 110>>     \* "unknown"

\* the OnlineUser made of one directory entry:
\* name.split_once('@').unwrap_or(("unknown", "unknown"))
OnlineUser(name, a) ==
    LET i == IndexOf(name, AT)
    IN  [username |-> IF i = 0 THEN TextUnknown ELSE SubSeq(name, 1, i - 1),
         hostname |-> IF i = 0 THEN TextUnknown ELSE SubSeq(name, i + 1, Len(name)),
         ip |-> SocketAddr(a).ip,
         port |-> SocketAddr(a).port]

\* users.iter().map(..).collect(): one OnlineUser for each entry of keys, in
\* the map's order, which is not specified
RECURSIVE Collect(_, _)
Collect(u, keys) ==
    IF keys = {} THEN EmptyBag
    ELSE LET k == CHOOSE x \in keys : TRUE
         IN  SetToBag({OnlineUser(k, u[k])}) (+) Collect(u, keys \ {k})

get_online_users(u) == Collect(u, DOMAIN u)

\* a mutation of get_user_addr: a bare name finds the key name@host
get_user_addr_by_name(u, s) ==
    LET found == {k \in DOMAIN u : k = s \/ SubSeq(k, 1, IndexOf(k, AT) - 1) = s}
    IN  IF found = {} THEN "none" ELSE u[CHOOSE k \in found : TRUE]

\* users.get(username).cloned(), "none" for None
get_user_addr(u, s) == IF s \in DOMAIN u THEN u[s] ELSE "none"

\* self.users.read().await: granted when no write guard is out and no writer
\* is queued
ReadGranted == ~writer /\ pc # "queued"

\* get_user_addr: let users = self.users.read().await
GetUserAddrLock(c, s) ==
    /\ op[c] = "idle"
    /\ ReadGranted
    /\ readers' = readers \cup {c}
    /\ op' = [op EXCEPT ![c] = "get_user_addr"]
    /\ arg' = [arg EXCEPT ![c] = [NoArg EXCEPT !.username = s]]
    /\ ret' = [ret EXCEPT ![c] = NoReturn]
    /\ UNCHANGED <<config, mainVars, loopVars, codecVars, broadcast_ip, writer, sent>>

\* a mutation of GetUserAddr: the entry found is taken out of the directory
GetUserAddrTakes(c) ==
    /\ op[c] = "get_user_addr"
    /\ ret' = [ret EXCEPT ![c] = [NoReturn EXCEPT
                  !.op = "get_user_addr",
                  !.addr = get_user_addr(users, arg[c].username)]]
    /\ users' = Remove(users, arg[c].username)
    /\ readers' = readers \ {c}
    /\ op' = [op EXCEPT ![c] = "idle"]
    /\ UNCHANGED <<config, mainVars, pc, consecutive_errors, buf, addr, packet, result,
                   arrived, handled, errRun, afterFour, codecVars,
                   broadcast_ip, writer, arg, sent>>

\* get_user_addr: users.get(username).cloned(), the read guard dropped
GetUserAddr(c) ==
    /\ op[c] = "get_user_addr"
    /\ ret' = [ret EXCEPT ![c] = [NoReturn EXCEPT
                  !.op = "get_user_addr",
                  !.addr = get_user_addr(users, arg[c].username)]]
    /\ readers' = readers \ {c}
    /\ op' = [op EXCEPT ![c] = "idle"]
    /\ UNCHANGED <<config, mainVars, loopVars, codecVars, broadcast_ip, writer, arg, sent>>

\* get_online_users: self.users.read().await
GetOnlineUsersLock(c) ==
    /\ op[c] = "idle"
    /\ ReadGranted
    /\ readers' = readers \cup {c}
    /\ op' = [op EXCEPT ![c] = "get_online_users"]
    /\ arg' = [arg EXCEPT ![c] = NoArg]
    /\ ret' = [ret EXCEPT ![c] = NoReturn]
    /\ UNCHANGED <<config, mainVars, loopVars, codecVars, broadcast_ip, writer, sent>>

\* get_online_users: the entries collected, the read guard dropped
GetOnlineUsers(c) ==
    /\ op[c] = "get_online_users"
    /\ ret' = [ret EXCEPT ![c] = [NoReturn EXCEPT
                  !.op = "get_online_users",
                  !.list = get_online_users(users)]]
    /\ readers' = readers \ {c}
    /\ op' = [op EXCEPT ![c] = "idle"]
    /\ UNCHANGED <<config, mainVars, loopVars, codecVars, broadcast_ip, writer, arg, sent>>

\* the packets given to broadcast and send_to: a message, the same to a
\* group, one with text outside ASCII, an entry notice
SendPackets ==
    { Packet(TextLanMsg, <<0, 100>>, TextUser, TextPC1, <<0, MSG>>,
             TextAlice, <<>>, TextHello),
      Packet(TextLanMsg, <<0, 100>>, TextUser, TextPC1, <<0, MSG>>,
             TextAlice, <<103>>, TextHello),
      Packet(TextLanMsg, <<0, 100>>, TextUser, TextPC1, <<0, MSG>>,
             TextZhang, <<>>, TextZhang),
      Packet(TextLanMsg, <<0, 0>>, TextUser, TextPC1, <<0, BR_ENTRY>>,
             TextAlice, <<>>, <<>>) }

SendInit ==
    /\ config \in {"gbk", "utf-8"}
    /\ broadcast_ip \in {default_broadcast_ip, "192.168.1.255"}
    /\ ListenOff
    /\ CodecIdle
    /\ CallersIdle
    /\ MainOff

SendNext ==
    \E c \in Callers :
        \/ \E p \in SendPackets : BroadcastCall(c, p)
        \/ \E p \in SendPackets, a \in {"A1", "A2"} : SendToCall(c, p, a)
        \/ \E ok \in BOOLEAN : Broadcast(c, ok)
        \/ \E ok \in BOOLEAN : SendTo(c, ok)

SpecSend == SendInit /\ [][SendNext]_vars

-----------------------------------------------------------------------------
(* The service as a whole: listen on its task, the operations called from  *)
(* the main task.                                                          *)

\* how many datagrams arrive while the service is called
MaxArrivals == 2

KeyA == NameA \o <<AT, 104>>                   \* "a@h"
NameBX == <<98, AT, 120>>                      \* "b@x"

\* an entry and an exit of a, an entry answer of b@x, a notice of a that is
\* no presence notice, a datagram that does not decode
ServiceDeliveries ==
    { <<Datagram(<<49>>, BR_ENTRY, NameA), "A1">>,
      <<Datagram(<<49>>, BR_EXIT, NameA), "A2">>,
      <<Datagram(<<49>>, 256 + IPMSG_ANSENTRY, NameBX), "A2">>,
      <<Datagram(<<49>>, IPMSG_BR_ABSENCE, NameA), "A2">>,
      <<SubSeq(Datagram(<<49>>, BR_ENTRY, NameA), 1, 9), "A1">> }

\* the names looked up: a key, and the name of a key without its host
Lookups == {KeyA, NameA}

ServicePacket ==
    Packet(TextLanMsg, <<0, 100>>, TextUser, TextPC1, <<0, MSG>>,
           TextAlice, <<>>, TextHello)

\* recv_from returns Ok((len, addr)), for at most MaxArrivals datagrams
Arrives(d, a) == Len(arrived) < MaxArrivals /\ RecvOk(d, a)

ServiceNext ==
    \/ \E dl \in ServiceDeliveries : Arrives(dl[1], dl[2])
    \/ RecvErr
    \/ DecodeOk
    \/ DecodeFail
    \/ LockUsers
    \/ HandlePacket
    \/ Callback
    \/ BroadcastCall("main", ServicePacket)
    \/ SendToCall("main", ServicePacket, "A1")
    \/ \E ok \in BOOLEAN : Broadcast("main", ok)
    \/ \E ok \in BOOLEAN : SendTo("main", ok)
    \/ \E s \in Lookups : GetUserAddrLock("main", s)
    \/ GetUserAddr("main")
    \/ GetOnlineUsersLock("main")
    \/ GetOnlineUsers("main")

SpecService == Init /\ [][ServiceNext]_vars

\* the lock: listen and two tasks that query the directory
LockDeliveries ==
    { <<Datagram(<<49>>, BR_ENTRY, NameA), "A1">>,
      <<Datagram(<<49>>, BR_EXIT, NameA), "A2">>,
      <<SubSeq(Datagram(<<49>>, BR_ENTRY, NameA), 1, 9), "A1">> }

LockNext ==
    \/ \E dl \in LockDeliveries : Arrives(dl[1], dl[2])
    \/ RecvErr
    \/ DecodeOk
    \/ DecodeFail
    \/ LockUsers
    \/ HandlePacket
    \/ Callback
    \/ \E c \in Callers :
          \/ GetUserAddrLock(c, KeyA)
          \/ GetUserAddr(c)
          \/ GetOnlineUsersLock(c)
          \/ GetOnlineUsers(c)

SpecLock == Init /\ [][LockNext]_vars

-----------------------------------------------------------------------------
(* main: the server is made, listen is spawned, the entry notice is        *)
(* broadcast, the command of the command line is run, the exit notice is   *)
(* broadcast.  Every call of main is the call step and the return step of  *)
(* the method, followed by main's own step on what the call returned.      *)

MainName == NameB                  \* cli.name
MainHost == <<104>>                \* cli.host, "h"

\* rand::random(), two of its values
RandomNos == {<<0, 7>>, <<1, 0>>}

\* IpMsgPacket { version, packet_no, sender_name: cli.name, sender_host:
\* cli.host, command, additional_msg, group_name: "", ..Default::default() }
MainPacket(no, cmd, msg) ==
    Packet(TextLanMsg, no, TextUser, MainHost, <<0, cmd>>, MainName, <<>>, msg)

\* cli.command: Send to a bare name or to a name typed with its host,
\* Broadcast, List, Chat
CliCommands ==
    { [kind |-> "send", recipient |-> NameA],
      [kind |-> "send", recipient |-> KeyA],
      [kind |-> "broadcast", recipient |-> <<>>],
      [kind |-> "list", recipient |-> <<>>],
      [kind |-> "chat", recipient |-> <<>>] }

MainInit ==
    /\ config \in {"gbk", "utf-8"}
    /\ broadcast_ip = default_broadcast_ip
    /\ ListenOff
    /\ CodecIdle
    /\ CallersIdle
    /\ mpc = "new"
    /\ cli \in CliCommands
    /\ mret = "none"
    /\ did = <<>>

\* what main's own steps leave alone
MainFrame ==
    UNCHANGED <<config, users, consecutive_errors, buf, addr, packet, result,
                arrived, handled, errRun, afterFour, codecVars,
                broadcast_ip, readers, op, arg, sent, cli>>

\* main returns r: the runtime is dropped and the listen task with it
MainReturns(r) ==
    /\ mpc' = "returned"
    /\ mret' = r
    /\ pc' = "off"
    /\ writer' = FALSE

\* main goes on to position next
GoesOn(next) ==
    /\ mpc' = next
    /\ UNCHANGED <<mret, pc, writer>>

\* `call.await?`: the step is done; on Err main returns it, on Ok it goes on
Question(step, next) ==
    /\ op["main"] = "idle"
    /\ did' = Append(did, step)
    /\ ret' = [ret EXCEPT !["main"] = NoReturn]
    /\ IF ret["main"].ok THEN GoesOn(next) ELSE MainReturns("Err")
    /\ MainFrame

\* IpMsgServer::new(Some(config.bind_addr())).await?
NewServer(ok) ==
    /\ mpc = "new"
    /\ IF ok THEN GoesOn("spawn") ELSE MainReturns("Err")
    /\ UNCHANGED <<did, ret>>
    /\ MainFrame

\* tokio::spawn(async move { server_clone.listen(..).await })
SpawnListen ==
    /\ mpc = "spawn"
    /\ pc' = "recv"
    /\ mpc' = "entry"
    /\ did' = Append(did, "spawn")
    /\ UNCHANGED <<mret, writer, ret>>
    /\ MainFrame

\* server.broadcast(&entry_packet) is called
EntryCall ==
    /\ mpc = "entry"
    /\ ret["main"].op = "none"
    /\ \E no \in RandomNos : BroadcastCall("main", MainPacket(no, BR_ENTRY, <<>>))

\* a broadcast of main returns
MainBroadcast(ok) ==
    /\ mpc \in {"entry", "command", "exit"}
    /\ Broadcast("main", ok)

\* server.broadcast(&entry_packet).await?
EntryDone ==
    /\ mpc = "entry"
    /\ ret["main"].op = "broadcast"
    /\ Question("entry", "command")

\* a mutation of LookupCall: the lookup is of recipient_full,
\* format!("{}@{}", recipient, cli.host)
LookupCallFull ==
    /\ mpc = "command"
    /\ cli.kind = "send"
    /\ ret["main"].op = "none"
    /\ GetUserAddrLock("main", cli.recipient \o <<AT>> \o MainHost)

\* Commands::Send: server.get_user_addr(&recipient) is called
LookupCall ==
    /\ mpc = "command"
    /\ cli.kind = "send"
    /\ ret["main"].op = "none"
    /\ GetUserAddrLock("main", cli.recipient)

\* get_user_addr returns to main
LookupReturn ==
    /\ mpc = "command"
    /\ GetUserAddr("main")

\* if let Some(addr) = .. { .. } else { println!("User {} not found", ..) }
SendBranch ==
    /\ mpc = "command"
    /\ cli.kind = "send"
    /\ op["main"] = "idle"
    /\ ret["main"].op = "get_user_addr"
    /\ IF ret["main"].addr = "none"
       THEN /\ did' = Append(did, "not found")
            /\ ret' = [ret EXCEPT !["main"] = NoReturn]
            /\ mpc' = "exit"
       ELSE /\ did' = Append(did, "found")
            /\ ret' = ret
            /\ mpc' = "send"
    /\ UNCHANGED <<mret, pc, writer>>
    /\ MainFrame

\* server.send_to(&packet, &addr) is called with the address found
SendCall ==
    /\ mpc = "send"
    /\ ret["main"].op = "get_user_addr"
    /\ \E no \in RandomNos :
          SendToCall("main", MainPacket(no, MSG, TextHello), ret["main"].addr)

\* send_to returns to main
SendReturn(ok) ==
    /\ mpc = "send"
    /\ SendTo("main", ok)

\* server.send_to(&packet, &addr).await?
SendDone ==
    /\ mpc = "send"
    /\ ret["main"].op = "send_to"
    /\ Question("send", "exit")

\* Commands::Broadcast: server.broadcast(&packet) is called
MessageCall ==
    /\ mpc = "command"
    /\ cli.kind = "broadcast"
    /\ ret["main"].op = "none"
    /\ \E no \in RandomNos : BroadcastCall("main", MainPacket(no, MSG, TextHello))

\* server.broadcast(&packet).await?
MessageDone ==
    /\ mpc = "command"
    /\ cli.kind = "broadcast"
    /\ ret["main"].op = "broadcast"
    /\ Question("broadcast", "exit")

\* Commands::List: server.get_online_users() is called, after the sleep
ListCall ==
    /\ mpc = "command"
    /\ cli.kind = "list"
    /\ ret["main"].op = "none"
    /\ GetOnlineUsersLock("main")

\* get_online_users returns to main
ListReturn ==
    /\ mpc = "command"
    /\ GetOnlineUsers("main")

\* the users are printed
ListDone ==
    /\ mpc = "command"
    /\ cli.kind = "list"
    /\ ret["main"].op = "get_online_users"
    /\ Question("list", "exit")

\* Commands::Chat, one turn of the loop: stdin.read_line(&mut input).await?
\* fails, or reads /quit or /exit, or an empty line, or a line handed to tx
\* (rx is never read; the lines the channel holds are not counted)
ChatLine(input) ==
    /\ mpc = "command"
    /\ cli.kind = "chat"
    /\ CASE input = "err"  -> MainReturns("Err") /\ did' = did
         [] input = "quit" -> GoesOn("exit") /\ did' = Append(did, "chat")
         [] OTHER          -> GoesOn("command") /\ did' = did
    /\ ret' = ret
    /\ MainFrame

\* server.broadcast(&exit_packet) is called
ExitCall ==
    /\ mpc = "exit"
    /\ ret["main"].op = "none"
    /\ \E no \in RandomNos : BroadcastCall("main", MainPacket(no, BR_EXIT, <<>>))

\* server.broadcast(&exit_packet).await?; Ok(())
ExitDone ==
    /\ mpc = "exit"
    /\ op["main"] = "idle"
    /\ ret["main"].op = "broadcast"
    /\ did' = Append(did, "exit")
    /\ ret' = [ret EXCEPT !["main"] = NoReturn]
    /\ MainReturns(IF ret["main"].ok THEN "Ok" ELSE "Err")
    /\ MainFrame

\* the datagrams that reach the listen task while main runs
MainDeliveries ==
    { <<Datagram(<<49>>, BR_ENTRY, NameA), "A1">>,
      <<Datagram(<<49>>, BR_EXIT, NameA), "A2">>,
      <<SubSeq(Datagram(<<49>>, BR_ENTRY, NameA), 1, 9), "A1">> }

MainNext ==
    \/ \E ok \in BOOLEAN : NewServer(ok)
    \/ SpawnListen
    \/ EntryCall
    \/ \E ok \in BOOLEAN : MainBroadcast(ok)
    \/ EntryDone
    \/ LookupCall
    \/ LookupReturn
    \/ SendBranch
    \/ SendCall
    \/ \E ok \in BOOLEAN : SendReturn(ok)
    \/ SendDone
    \/ MessageCall
    \/ MessageDone
    \/ ListCall
    \/ ListReturn
    \/ ListDone
    \/ \E input \in {"err", "quit", "empty", "line"} : ChatLine(input)
    \/ ExitCall
    \/ ExitDone
    \/ \E dl \in MainDeliveries : Arrives(dl[1], dl[2])
    \/ RecvErr
    \/ DecodeOk
    \/ DecodeFail
    \/ LockUsers
    \/ HandlePacket
    \/ Callback

SpecMain == MainInit /\ [][MainNext]_vars

-----------------------------------------------------------------------------
(* Two instances with the same configuration: the calling side is the main *)
(* task of instance A, the listen task is that of instance B.  What A      *)
(* broadcasts reaches B from A's address.                                  *)

\* the presence notices of main, for cli.name a or b and cli.host h
PeerPackets ==
    { Packet(TextLanMsg, no, TextUser, MainHost, <<0, cmd>>, name, <<>>, <<>>) :
        no \in RandomNos, cmd \in {BR_ENTRY, BR_EXIT}, name \in {NameA, NameB} }

PeerAddr == "A1"

\* a datagram that A handed to its socket arrives at B
Delivers == \E i \in 1..Len(sent) : Arrives(sent[i].payload, PeerAddr)

\* a datagram from elsewhere that does not decode
StrayDeliveries == { <<SubSeq(Datagram(<<49>>, BR_ENTRY, NameA), 1, 9), "A2">> }

PeersNext ==
    \/ \E p \in PeerPackets : BroadcastCall("main", p)
    \/ \E ok \in BOOLEAN : Broadcast("main", ok)
    \/ Delivers
    \/ \E dl \in StrayDeliveries : Arrives(dl[1], dl[2])
    \/ RecvErr
    \/ DecodeOk
    \/ DecodeFail
    \/ LockUsers
    \/ HandlePacket
    \/ Callback

SpecPeers == Init /\ [][PeersNext]_vars

-----------------------------------------------------------------------------
(* Properties of the receive loop and the directory.                       *)

\* the command class and the directory key, as the specification words them
ClassOf(p) == p.command[2] % 256
KeyOf(p) == p.sender_name \o <<AT>> \o p.sender_host
HasFlags(p) == p.command # <<0, ClassOf(p)>>

\* the step in which the loop applies the directory update to packet
Processing == pc = "locked" /\ pc' = "callback"

\* every key but k is in both directories or in neither, with the same address
OthersKept(k, before, after) ==
    \A x \in ((DOMAIN before) \cup (DOMAIN after)) \ {k} :
        x \in DOMAIN before /\ x \in DOMAIN after /\ after[x] = before[x]

\* C1: processing a decoded packet of class BR_ENTRY (0x01) or IPMSG_ANSENTRY
\* (0x03), whatever the bits above the low byte, leaves the key
\* senderName@senderHost mapped to the datagram's sender address, present
\* before or not, and leaves every other key as it was.
C1_EntryMapsKeyToSender ==
    [][ (Processing /\ ClassOf(packet) \in {1, 3}) =>
          /\ KeyOf(packet) \in DOMAIN users'
          /\ users'[KeyOf(packet)] = addr
          /\ OthersKept(KeyOf(packet), users, users') ]_vars

C1_Witness ==
    /\ pc = "callback"
    /\ ClassOf(packet) = 3
    /\ HasFlags(packet)
    /\ Cardinality(DOMAIN users) = 2
    /\ users[KeyOf(packet)] = addr

\* C2: processing a decoded packet of class BR_EXIT (0x02) leaves no entry for
\* its key and every other key as it was, whatever address it came from; on
\* an absent key it changes nothing; it raises no error and the loop goes on.
C2_ExitRemovesKey ==
    [][ (Processing /\ ClassOf(packet) = 2) =>
          /\ KeyOf(packet) \notin DOMAIN users'
          /\ OthersKept(KeyOf(packet), users, users')
          /\ (KeyOf(packet) \notin DOMAIN users => users' = users)
          /\ result' = "none" ]_vars

\* an exit from A2 has removed what an entry from A1 created, another key is kept
C2_Witness ==
    /\ pc = "callback"
    /\ ClassOf(packet) = 2
    /\ KeyOf(packet) \notin DOMAIN users
    /\ users # EmptyMap
    /\ \E i \in 1..Len(handled) :
          /\ ClassOf(handled[i][1]) = 1
          /\ KeyOf(handled[i][1]) = KeyOf(packet)
          /\ handled[i][2] # addr

\* C3: processing a decoded packet whose class is none of BR_ENTRY,
\* IPMSG_ANSENTRY, BR_EXIT leaves the whole directory as it was.
C3_OtherClassesKeepDirectory ==
    [][ (Processing /\ ClassOf(packet) \notin {1, 2, 3}) => users' = users ]_vars

\* a packet of another class, from another address than its key is recorded at
C3_Witness ==
    /\ pc = "callback"
    /\ ClassOf(packet) \in {0, 4, 32, 96}
    /\ KeyOf(packet) \in DOMAIN users
    /\ users[KeyOf(packet)] # addr

\* the packets between positions i and the end of the handled ones are all
\* for other keys than k
OnlyOtherKeysSince(i, k) ==
    \A j \in (i + 1)..Len(handled) : KeyOf(handled[j][1]) # k

\* C4: presence is last-writer-wins.  When a BR_ENTRY packet for key k is
\* processed after an earlier BR_ENTRY for k, with only packets for other keys
\* in between, the directory keeps one entry for k (no key is added), its
\* address is the later packet's sender address, and when the two packets and
\* their addresses are the same the directory is what it was.
C4_LastWriterWins ==
    [][ (Processing /\ ClassOf(packet) = 1) =>
          \A i \in 1..Len(handled) :
             (/\ ClassOf(handled[i][1]) = 1
              /\ KeyOf(handled[i][1]) = KeyOf(packet)
              /\ OnlyOtherKeysSince(i, KeyOf(packet)))
             => /\ DOMAIN users' = DOMAIN users
                /\ users'[KeyOf(packet)] = addr
                /\ (handled[i] = <<packet, addr>> => users' = users) ]_vars

\* an entry from A1, a packet for another key, then the entry from A2
C4_Witness ==
    /\ pc = "callback"
    /\ ClassOf(packet) = 1
    /\ Len(handled) = 2
    /\ ClassOf(handled[1][1]) = 1
    /\ KeyOf(handled[1][1]) = KeyOf(packet)
    /\ handled[1][2] # addr
    /\ KeyOf(handled[2][1]) # KeyOf(packet)
    /\ users[KeyOf(packet)] = addr

\* C5: listen has returned exactly when five receive errors have occurred in
\* a row, and then with an error; a successful receive leaves the counter at
\* 0; the counter is in 0..4 while the loop waits for a datagram and is never
\* above 5.
C5_FiveConsecutiveErrors ==
    /\ (pc = "returned") <=> (errRun = 5)
    /\ (pc = "returned") <=> (result = "Err")
    /\ result \in {"none", "Err"}
    /\ pc = "recv" => consecutive_errors \in 0..4
    /\ pc = "decode" => consecutive_errors = 0
    /\ consecutive_errors <= 5

\* four errors, a successful receive, four more errors: the loop still waits
C5_Witness ==
    /\ pc = "recv"
    /\ afterFour
    /\ errRun = 4
    /\ consecutive_errors = 4

\* what decoding makes of each datagram of the model, under each configuration
DecodeResult ==
    [c \in {"gbk", "utf-8"} |->
        [d \in {dl[1] : dl \in Deliveries \cup ServiceDeliveries} |-> decode_with_config(d, c)]]

Undecodable(d) == ~DecodeResult[config][d].ok

\* C6: a datagram that is received but does not decode leaves the directory
\* as it was, invokes no handler and does not end the loop, which receives
\* again with its counter at 0.
C6_DecodeFailureIsDropped ==
    [][ (pc = "decode" /\ Undecodable(buf)) =>
          /\ pc' = "recv"
          /\ users' = users
          /\ handled' = handled
          /\ consecutive_errors' = 0
          /\ result' = "none" ]_vars

\* two undecodable datagrams with receive errors around them: still waiting
C6_Witness ==
    /\ pc = "recv"
    /\ Len(arrived) >= 2
    /\ \A i \in 1..Len(arrived) : Undecodable(arrived[i][1])
    /\ afterFour
    /\ errRun = 4
    /\ handled = <<>>

\* <<packet, address>> of the datagrams of a history that decode, in order
RECURSIVE DecodedOf(_)
DecodedOf(h) ==
    IF h = <<>> THEN <<>>
    ELSE LET r == DecodeResult[config][h[1][1]]
         IN  (IF r.ok THEN <<(<<r.packet, h[1][2]>>)>> ELSE <<>>) \o DecodedOf(Tail(h))

\* the datagrams the loop is done with: all but the one it is working on
Finished ==
    IF pc \in {"decode", "handle", "queued", "locked", "callback"}
    THEN SubSeq(arrived, 1, Len(arrived) - 1) ELSE arrived

\* C7: the handler has been invoked once for each datagram that decoded, in
\* arrival order, with the decoded packet and the datagram's sender address,
\* and for nothing else; when it is about to be invoked for a packet the
\* directory already holds that packet's update, and no datagram is received
\* in between.
C7_HandlerOncePerDecodedInOrder ==
    /\ handled = DecodedOf(Finished)
    /\ pc = "callback" =>
          /\ <<packet, addr>> = DecodedOf(arrived)[Len(handled) + 1]
          /\ ClassOf(packet) \in {1, 3} =>
                KeyOf(packet) \in DOMAIN users /\ users[KeyOf(packet)] = addr
          /\ ClassOf(packet) = 2 => KeyOf(packet) \notin DOMAIN users

\* three datagrams received, one of them undecodable, two handler invocations
C7_Witness ==
    /\ pc = "recv"
    /\ Len(arrived) = 3
    /\ Len(handled) = 2
    /\ handled[1] # handled[2]
    /\ Undecodable(arrived[2][1])

-----------------------------------------------------------------------------
(* Properties of the codec.                                                *)

\* a text field free of ':' and NUL, with no whitespace around it
CleanText(t) ==
    /\ \A i \in 1..Len(t) : t[i] # 58 /\ t[i] # 0
    /\ t = <<>> \/ (~IsWhitespace(t[1]) /\ ~IsWhitespace(t[Len(t)]))

CleanPacket(p) ==
    /\ CleanText(p.version)
    /\ CleanText(p.sender_user)
    /\ CleanText(p.sender_host)
    /\ CleanText(p.sender_name)
    /\ CleanText(p.group_name)
    /\ CleanText(p.additional_msg)

\* C8: for a clean packet with an empty groupName, decoding what Encode made
\* of it succeeds and gives back its additionalMsg, command, packetNo and
\* senderHost, under the gbk and under the utf-8 configuration.
C8_RoundTripCleanInput ==
    (cpc = "decoded" /\ pkt.group_name = <<>> /\ CleanPacket(pkt)) =>
        /\ dec.ok
        /\ dec.packet.additional_msg = pkt.additional_msg
        /\ dec.packet.command = pkt.command
        /\ dec.packet.packet_no = pkt.packet_no
        /\ dec.packet.sender_host = pkt.sender_host

\* the bytes of a datagram before its first byte past ASCII, and the rest
AsciiPart(d) ==
    LET high == {i \in 1..Len(d) : d[i] > 127}
    IN  IF high = {} THEN d ELSE SubSeq(d, 1, Min(high) - 1)
TrailingPart(d) == SubSeq(d, Len(AsciiPart(d)) + 1, Len(d))

SegmentsOf(d) == Split(AsciiPart(d), 58)

\* at least six colon-separated ASCII segments, then trailing bytes that the
\* configured encoding does not accept
SixSegmentsThenGarbage(d) ==
    /\ Len(SegmentsOf(d)) >= 6
    /\ TrailingPart(d) # <<>>
    /\ HadErrors(DecodeMarked(Encoding(config), TrailingPart(d)))

RECURSIVE DigitsLeq(_, _)
DigitsLeq(a, b) ==     \* a <= b, for digit strings of one length
    \/ a = <<>>
    \/ a[1] < b[1]
    \/ a[1] = b[1] /\ DigitsLeq(Tail(a), Tail(b))

RECURSIVE StripZeros(_)
StripZeros(t) == IF Len(t) > 1 /\ t[1] = 48 THEN StripZeros(Tail(t)) ELSE t

\* an unsigned decimal number that fits 32 bits
IsDecimalU32(t) ==
    /\ t # <<>>
    /\ \A i \in 1..Len(t) : t[i] \in 48..57
    /\ \/ Len(StripZeros(t)) < 10
       \/ /\ Len(StripZeros(t)) = 10
          /\ DigitsLeq(StripZeros(t), <<52, 50, 57, 52, 57, 54, 55, 50, 57, 53>>)

\* the same, with the '+' sign that str::parse accepts before the digits
IsSignedDecimalU32(t) ==
    IsDecimalU32(IF t # <<>> /\ t[1] = 43 THEN Tail(t) ELSE t)

PrintableSegment(t) == \A i \in 1..Len(t) : t[i] \in 32..126

\* C9, as claimed: for at least six colon-separated ASCII segments followed by
\* trailing bytes that are not valid in the configured encoding, Decode
\* returns a packet, with packetNo and command 0 when their segment is not an
\* unsigned 32-bit decimal.
C9_FallbackNeverFailsAnyAscii ==
    (cpc = "decoded" /\ SixSegmentsThenGarbage(wire)) =>
        /\ dec.ok
        /\ ~IsDecimalU32(SegmentsOf(wire)[2]) => dec.packet.packet_no = <<0, 0>>
        /\ ~IsDecimalU32(SegmentsOf(wire)[5]) => dec.packet.command = <<0, 0>>

\* C9, amended: the same when the first five segments are printable ASCII
\* (bytes 0x20..0x7E), a decimal being allowed a leading '+'.
C9_FallbackNeverFailsPrintable ==
    (/\ cpc = "decoded"
     /\ SixSegmentsThenGarbage(wire)
     /\ \A i \in 1..5 : PrintableSegment(SegmentsOf(wire)[i])) =>
        /\ dec.ok
        /\ ~IsSignedDecimalU32(SegmentsOf(wire)[2]) => dec.packet.packet_no = <<0, 0>>
        /\ ~IsSignedDecimalU32(SegmentsOf(wire)[5]) => dec.packet.command = <<0, 0>>

\* a packet number that overflows 32 bits and a command with a trailing
\* space, before a byte that is malformed in GBK: decoded, both 0
C9_Witness ==
    /\ cpc = "decoded"
    /\ config = "gbk"
    /\ SixSegmentsThenGarbage(wire)
    /\ \A i \in 1..5 : PrintableSegment(SegmentsOf(wire)[i])
    /\ SegmentsOf(wire)[2] = <<52, 50, 57, 52, 57, 54, 55, 50, 57, 54>>
    /\ SegmentsOf(wire)[5] = <<49, 32>>
    /\ dec.ok
    /\ dec.packet.packet_no = <<0, 0>>
    /\ dec.packet.command = <<0, 0>>

\* the text the claim gives for a packet
ClaimedText(p) ==
    p.version \o <<58>> \o FmtU32(p.packet_no) \o <<58>> \o <<97, 97, 77, 115, 103>>
      \o <<58>> \o p.sender_host \o <<58>> \o FmtU32(p.command) \o <<58>>
      \o (IF p.group_name # <<>> THEN p.sender_name \o <<0>> \o p.group_name
          ELSE p.additional_msg)

\* C10: Encode produces version:packetNo:aaMsg:senderHost:command:<additional>
\* in the configured encoding, the third slot being the literal aaMsg and
\* <additional> being senderName NUL groupName when groupName is not empty
\* and additionalMsg otherwise.
C10_EncodeLayout ==
    cpc \in {"wire", "decoded"} =>
        wire = EncodeText(Encoding(config), ClaimedText(pkt))

\* a group-addressed packet with a sender name and a message body, encoded
C10_Witness ==
    /\ cpc = "wire"
    /\ pkt.group_name # <<>>
    /\ pkt.sender_name = TextAlice
    /\ pkt.additional_msg = TextHello
    /\ wire # <<>>


\* the path Decode takes for the bytes on the wire, and the string it parses
OnFallback == HadErrors(DecodeMarked(Encoding(config), wire))
TextToParse ==
    IF OnFallback THEN extract_string_part2(wire, config)
    ELSE Trim(DecodeMarked(Encoding(config), wire))
PartsToParse == Split(TextToParse, 58)

\* the n-th NUL-separated piece of a tail, empty when there is none
TailPiece(tail, n) ==
    IF n <= Len(Split(tail, 0)) THEN Split(tail, 0)[n] ELSE <<>>

\* C11: on the primary and on the fallback path the sixth colon-separated
\* part of the parsed string is split on NUL and its first, second and third
\* pieces are senderName, groupName and additionalMsg, a missing piece being
\* the empty string.
C11_TailSplitOnBothPaths ==
    (cpc = "decoded" /\ dec.ok) =>
        /\ dec.packet.sender_name = TailPiece(PartsToParse[6], 1)
        /\ dec.packet.group_name = TailPiece(PartsToParse[6], 2)
        /\ dec.packet.additional_msg = TailPiece(PartsToParse[6], 3)

\* C12, as claimed: Decode fails when the string to parse has fewer than six
\* colon-separated parts; with six or more, on the primary path it fails
\* when the packetNo or command part is not an unsigned 32-bit decimal, and
\* on the fallback path it succeeds, such a part giving 0.
C12_StrictDecimalOrFail ==
    cpc = "decoded" =>
        /\ Len(PartsToParse) < 6 => ~dec.ok
        /\ (/\ Len(PartsToParse) >= 6
            /\ ~OnFallback
            /\ \/ ~IsDecimalU32(PartsToParse[2])
               \/ ~IsDecimalU32(PartsToParse[5])) => ~dec.ok
        /\ (Len(PartsToParse) >= 6 /\ OnFallback) =>
              /\ dec.ok
              /\ ~IsDecimalU32(PartsToParse[2]) => dec.packet.packet_no = <<0, 0>>
              /\ ~IsDecimalU32(PartsToParse[5]) => dec.packet.command = <<0, 0>>

\* C12, amended: the same, a decimal being allowed a leading '+'.
C12_SignedDecimalOrFail ==
    cpc = "decoded" =>
        /\ Len(PartsToParse) < 6 => ~dec.ok
        /\ (/\ Len(PartsToParse) >= 6
            /\ ~OnFallback
            /\ \/ ~IsSignedDecimalU32(PartsToParse[2])
               \/ ~IsSignedDecimalU32(PartsToParse[5])) => ~dec.ok
        /\ (Len(PartsToParse) >= 6 /\ OnFallback) =>
              /\ dec.ok
              /\ ~IsSignedDecimalU32(PartsToParse[2]) =>
                    dec.packet.packet_no = <<0, 0>>
              /\ ~IsSignedDecimalU32(PartsToParse[5]) =>
                    dec.packet.command = <<0, 0>>

\* six parts decoded without invalid sequences, the packet number not a
\* number: Decode failed
C12_Witness ==
    /\ cpc = "decoded"
    /\ ~OnFallback
    /\ Len(PartsToParse) >= 6
    /\ PartsToParse[2] = <<120>>
    /\ IsDecimalU32(PartsToParse[5])
    /\ ~dec.ok

-----------------------------------------------------------------------------
(* Properties of the operations called on the service.                     *)

\* C13: the payload of every datagram that Broadcast or SendTo handed to the
\* socket is Encode(p, config) of the packet p it was called with.
C13_PayloadIsConfigEncode ==
    \A i \in 1..Len(sent) :
        sent[i].payload = encode_with_config(sent[i].packet, config)

\* the call of task c returns in this step
Returns(c, call) == op[c] = call /\ op'[c] = "idle"

\* C14: a Broadcast that returns without error has handed exactly one
\* datagram to the socket, addressed to the configuration's broadcast address
\* on the protocol port, and a SendTo exactly one, addressed to its address
\* argument; a call that returns an error has handed over none.
C14_OneDatagramToConfiguredAddress ==
    [][ \A c \in Callers :
          /\ Returns(c, "broadcast") =>
                IF ret'[c].ok
                THEN /\ Len(sent') = Len(sent) + 1
                     /\ SubSeq(sent', 1, Len(sent)) = sent
                     /\ sent'[Len(sent')].dest = [ip |-> broadcast_ip, port |-> 2425]
                ELSE sent' = sent
          /\ Returns(c, "send_to") =>
                IF ret'[c].ok
                THEN /\ Len(sent') = Len(sent) + 1
                     /\ SubSeq(sent', 1, Len(sent)) = sent
                     /\ sent'[Len(sent')].dest = SocketAddr(arg[c].addr)
                ELSE sent' = sent ]_vars

\* C15: a step that changes the directory is the loop's update for a decoded
\* packet of a presence class (0x01, 0x02, 0x03); no step of a Broadcast,
\* SendTo, GetOnlineUsers or GetUserAddr call changes it.
C15_OnlyLoopChangesDirectory ==
    [][ /\ users' # users => (Processing /\ ClassOf(packet) \in {1, 2, 3})
        /\ \A c \in Callers : op'[c] # op[c] => users' = users ]_vars

\* a datagram was sent and a listing returned while a is in the directory
\* and the loop is decoding the next datagram
C15_Witness ==
    /\ pc = "decode"
    /\ sent # <<>>
    /\ ret["main"].op = "get_online_users"
    /\ BagCardinality(ret["main"].list) = 1
    /\ DOMAIN users = {<<97, 64, 104>>}

HasAt(k) == \E i \in 1..Len(k) : k[i] = 64
FirstAt(k) == CHOOSE i \in 1..Len(k) : k[i] = 64 /\ \A j \in 1..(i - 1) : k[j] # 64

\* the record the claim gives for a directory entry
RecordOf(k, a) ==
    [username |-> SubSeq(k, 1, FirstAt(k) - 1),
     hostname |-> SubSeq(k, FirstAt(k) + 1, Len(k)),
     ip |-> SocketAddr(a).ip,
     port |-> SocketAddr(a).port]

IsUnknown(r) ==
    /\ r.username = <<117, 110, 107, 110, 111, 119, 110>>
    /\ r.hostname = <<117, 110, 107, 110, 111, 119, 110>>

\* C16: every directory key contains '@'; what GetOnlineUsers returns is, for
\* the directory of the instant it returns, exactly one record per key, made
\* of the key's part before its first '@', the part after it, and the ip and
\* port of the stored address, and no record is "unknown"/"unknown".
C16_OneRecordPerKeySplitAtFirstAt ==
    /\ [](\A k \in DOMAIN users : HasAt(k))
    /\ [][ \A c \in Callers : Returns(c, "get_online_users") =>
             /\ BagCardinality(ret'[c].list) = Cardinality(DOMAIN users)
             /\ \A k \in DOMAIN users :
                   CopiesIn(RecordOf(k, users[k]), ret'[c].list) = 1
             /\ \A r \in BagToSet(ret'[c].list) : ~IsUnknown(r) ]_vars

\* a listing of two entries, one of them b at x@h
C16_Witness ==
    /\ ret["main"].op = "get_online_users"
    /\ BagCardinality(ret["main"].list) = 2
    /\ \E r \in BagToSet(ret["main"].list) :
          /\ r.username = <<98>>
          /\ r.hostname = <<120, 64, 104>>
          /\ r.ip = "192.168.1.6"
          /\ r.port = 50000

\* C17: GetUserAddr(s) returns the address stored under the key that equals
\* s, and nothing when no key equals s, a part of a key included.
C17_ExactKeyLookup ==
    [][ \A c \in Callers : Returns(c, "get_user_addr") =>
          /\ arg[c].username \in DOMAIN users =>
                ret'[c].addr = users[arg[c].username]
          /\ arg[c].username \notin DOMAIN users => ret'[c].addr = "none" ]_vars

\* a@h is in the directory, the lookup of a has returned nothing, and the
\* loop has received nothing since the entry of a
C17_Witness ==
    /\ pc = "recv"
    /\ Len(arrived) = 1
    /\ <<97, 64, 104>> \in DOMAIN users
    /\ ret["main"].op = "get_user_addr"
    /\ arg["main"].username = <<97>>
    /\ ret["main"].addr = "none"
    /\ sent # <<>>

\* the update policy, as the specification gives it
ApplyPolicy(u, p, a) ==
    IF ClassOf(p) \in {1, 3}
    THEN [k \in (DOMAIN u) \cup {KeyOf(p)} |-> IF k = KeyOf(p) THEN a ELSE u[k]]
    ELSE IF ClassOf(p) = 2
         THEN [k \in (DOMAIN u) \ {KeyOf(p)} |-> u[k]]
         ELSE u

RECURSIVE FoldPolicy(_, _)
FoldPolicy(u, h) ==
    IF h = <<>> THEN u
    ELSE FoldPolicy(ApplyPolicy(u, h[1][1], h[1][2]), Tail(h))

\* the datagrams whose update is due: all but the one the loop has received
\* and not yet applied
Applied ==
    IF pc \in {"decode", "handle", "queued", "locked"}
    THEN SubSeq(arrived, 1, Len(arrived) - 1) ELSE arrived

\* C18: the directory is the update policy folded, from the empty directory,
\* over the datagrams that decoded, in arrival order, whatever sends and
\* queries run beside the loop.
C18_DirectoryIsFoldOfArrivals ==
    users = FoldPolicy(<< >>, DecodedOf(Applied))

\* an entry of a then an entry answer of b@x applied, a lookup of a@h answered
\* and a datagram sent meanwhile
C18_Witness ==
    /\ pc = "callback"
    /\ Len(arrived) = 2
    /\ DOMAIN users = {<<97, 64, 104>>, <<98, 64, 120, 64, 104>>}
    /\ sent # <<>>
    /\ ret["main"].op = "get_user_addr"
    /\ ret["main"].addr = "A1"

\* C19: the write lock is held only in the loop's update step for one packet,
\* never while the loop waits for a datagram, decodes or runs the handler, and
\* never beside a read lock; while the loop is in one of those places a task
\* can take the read lock, and a task that holds it can finish its query.
C19_WriteLockOnlyForUpdate ==
    /\ writer => pc = "locked"
    /\ readers # {} => ~writer
    /\ readers = {c \in Callers : op[c] \in {"get_user_addr", "get_online_users"}}
    /\ \A c \in Callers :
          /\ (pc \in {"recv", "decode", "callback"} /\ op[c] = "idle") =>
                /\ ENABLED GetUserAddrLock(c, <<97, 64, 104>>)
                /\ ENABLED GetOnlineUsersLock(c)
          /\ op[c] = "get_user_addr" => ENABLED GetUserAddr(c)
          /\ op[c] = "get_online_users" => ENABLED GetOnlineUsers(c)

\* two tasks hold the read lock at once while the handler runs
C19_Witness ==
    /\ pc = "callback"
    /\ readers = {"main", "task2"}
    /\ ~writer
    /\ users # << >>

\* C20: a key leaves the directory only in the loop's update for a decoded
\* BR_EXIT packet with that key; no other step removes it.
C20_KeyStaysUntilExit ==
    [][ \A k \in DOMAIN users :
          k \notin DOMAIN users' =>
              (Processing /\ ClassOf(packet) = 2 /\ KeyOf(packet) = k) ]_vars

\* a entered, then an absence notice of a was processed, a receive error
\* occurred and a datagram was sent: a is still in the directory
C20_Witness ==
    /\ pc = "recv"
    /\ Len(arrived) = 2
    /\ Len(handled) = 2
    /\ ClassOf(handled[2][1]) = 4
    /\ KeyOf(handled[2][1]) = <<97, 64, 104>>
    /\ errRun > 0
    /\ sent # <<>>
    /\ <<97, 64, 104>> \in DOMAIN users

-----------------------------------------------------------------------------
(* Properties of the program as a whole.                                   *)

\* a text the configured encoding has a code for in every character: any
\* text under utf-8; under gbk, ASCII and the characters of the GBK index
Representable(t) ==
    \/ config # "gbk"
    \/ \A i \in 1..Len(t) :
          t[i] < 128 \/ t[i] \in {24352, 29031, 35493, 32810, 25490, 33279}

\* what the claim says of a decoded group-addressed packet
GroupRoundTrip ==
    /\ dec.ok
    /\ dec.packet.sender_name = pkt.sender_name
    /\ dec.packet.group_name = pkt.group_name
    /\ dec.packet.sender_user = <<97, 97, 77, 115, 103>>
    /\ dec.packet.additional_msg = <<>>

Done(step) == \E i \in 1..Len(did) : did[i] = step

BareSend == cli.kind = "send" /\ ~HasAt(cli.recipient)

\* C23: a lookup of a string without '@' returns nothing, so the Send command
\* with a recipient name without '@' finds no user whatever has been
\* received: it calls send_to never, hands the socket no message, and has
\* reported the user as not found when it comes to the exit notice.
C23_BareNameNeverFound ==
    /\ [][\A c \in Callers :
            (Returns(c, "get_user_addr") /\ ~HasAt(arg[c].username))
                => ret'[c].addr = "none"]_vars
    /\ [](BareSend =>
            /\ ~Done("found") /\ ~Done("send")
            /\ mpc # "send" /\ op["main"] # "send_to"
            /\ \A i \in 1..Len(sent) : sent[i].call # "send_to"
            /\ mpc = "exit" => Done("not found"))

\* the recipient a is looked up while a@h is in the directory, and is not found
C23_Witness ==
    /\ BareSend
    /\ KeyA \in DOMAIN users
    /\ mpc = "command" /\ op["main"] = "idle"
    /\ ret["main"].op = "get_user_addr" /\ ret["main"].addr = "none"
    /\ arg["main"].username = NameA

\* the entry notice went out
EntrySent == \E i \in 1..Len(sent) : sent[i].packet.command = <<0, BR_ENTRY>>

\* main is in, or has done, a step of the command of the command line
CommandStarted ==
    \/ op["main"] \in {"get_user_addr", "send_to", "get_online_users"}
    \/ op["main"] = "broadcast" /\ arg["main"].packet.command = <<0, MSG>>
    \/ \E step \in {"found", "not found", "send", "broadcast", "list", "chat"} : Done(step)

\* listen is spawned before the entry notice is broadcast
SpawnBeforeEntry ==
    (op["main"] # "idle" \/ sent # <<>> \/ Done("entry")) => Done("spawn")

\* the entry notice is broadcast before any step of the command
EntryBeforeCommand == CommandStarted => Done("entry")

\* a run that sent the entry notice has called the exit broadcast when main
\* has returned
ExitBeforeReturn == (mpc = "returned" /\ EntrySent) => Done("exit")

\* C21, as claimed: listen is spawned before the entry broadcast, the entry
\* broadcast comes before any send or query of the command, and every run
\* that issued the entry broadcast issues the exit broadcast before main
\* returns, runs whose send or input step fails included.
C21_EntryFirstExitLast ==
    /\ SpawnBeforeEntry
    /\ EntryBeforeCommand
    /\ ExitBeforeReturn

\* the key the claim gives the sender of p
PeerKey(p) == p.sender_name \o <<AT>> \o p.sender_host

\* B has processed the datagram A sent for a packet of command cmd
PeerHandled(i, cmd) ==
    /\ pc = "callback"
    /\ buf = sent[i].payload /\ addr = PeerAddr
    /\ sent[i].packet.command = <<0, cmd>>

\* C22, as claimed: when B has processed the BR_ENTRY datagram A broadcast
\* for senderName n and senderHost h, B's directory maps n@h to A's address
\* (so senders that differ in name have entries of their own), and when B has
\* processed A's BR_EXIT datagram the key n@h is gone.
C22_PeerListedByNameAtHost ==
    \A i \in 1..Len(sent) :
        /\ PeerHandled(i, BR_ENTRY) =>
              /\ PeerKey(sent[i].packet) \in DOMAIN users
              /\ users[PeerKey(sent[i].packet)] = PeerAddr
        /\ PeerHandled(i, BR_EXIT) => PeerKey(sent[i].packet) \notin DOMAIN users

====
